---- MODULE Spec2Model ----
(***************************************************************************)
(* TransportationSolver (src/tpp_solver_pyqt6.py): North-West Corner       *)
(* initial plan followed by MODI iterations (fix_degeneracy, calculate_uv, *)
(* entering-cell selection, get_closed_loop, reallocation by theta).       *)
(*                                                                         *)
(* An allocation value is the float  q + e * 1e-10  with q, e integers,    *)
(* written [q |-> q, e |-> e]: the epsilon marker 1e-10 is [q=0, e=1].     *)
(* Rows and columns are numbered from 0 as in the source.                  *)
(***************************************************************************)
EXTENDS Integers, Sequences, FiniteSets, TLC

\* ---------------------------------------------------------------- bounds
\* rows + cols <= MaxDim
MaxDim == 5
\* sum of all unit costs + sum(supply) <= MaxWeight
MaxWeight == 4
\* the iteration counter of solve is capped here (the source has no cap)
MaxIter == 3

\* spin_rows.setRange(2, 50), spin_cols.setRange(2, 50): the smallest grid
MinDim == 2

VARIABLES
    rows,           \* self.rows
    cols,           \* self.cols
    costs,          \* self.costs
    supply,         \* self.supply
    demand,         \* self.demand
    allocation,     \* self.allocation
    pc,             \* position in solve (or in the single-method drivers)
    iteration,      \* the local `iteration` of solve
    initial_cost,   \* the local `initial_cost` of solve
    u,              \* the local `u` of solve
    v,              \* the local `v` of solve
    min_d,          \* the local `min_d` of solve
    entering_cell,  \* the local `entering_cell` of solve
    outcome,        \* which terminal message solve logged
    prev            \* the allocation before the last single-method call

vars == <<rows, cols, costs, supply, demand, allocation, pc, iteration,
          initial_cost, u, v, min_d, entering_cell, outcome, prev>>

\* ---------------------------------------------------------------- values
None == <<>>
Some(x) == <<x>>
Val(o) == o[1]

Zero == [q |-> 0, e |-> 0]
\* the literal 1e-10 of fix_degeneracy
Eps == [q |-> 0, e |-> 1]
Qty(n) == [q |-> n, e |-> 0]

\* a == 0
IsZero(a) == a.q = 0 /\ a.e = 0
\* a > 0
IsPos(a) == a.q > 0 \/ (a.q = 0 /\ a.e > 0)
\* a == 1e-10
IsEps(a) == a.q = 0 /\ a.e = 1
\* a < b
Less(a, b) == a.q < b.q \/ (a.q = b.q /\ a.e < b.e)
\* a >= 0
NonNeg(a) == ~Less(a, Zero)
Plus(a, b) == [q |-> a.q + b.q, e |-> a.e + b.e]
Minus(a, b) == [q |-> a.q - b.q, e |-> a.e - b.e]
\* a * k for an integer k
Times(a, k) == [q |-> a.q * k, e |-> a.e * k]

\* the test `allocation[r][c] > 0 or allocation[r][c] == 1e-10`
IsBasic(a) == IsPos(a) \/ IsEps(a)

RowsOf(R) == 0 .. (R - 1)
ColsOf(C) == 0 .. (C - 1)
CellsOf(R, C) == RowsOf(R) \X ColsOf(C)

\* for r in range(rows): for c in range(cols): the i-th cell visited
CellAt(C, i) == <<(i - 1) \div C, (i - 1) % C>>

RECURSIVE SumOver(_, _)
SumOver(f, S) ==
    IF S = {} THEN 0
    ELSE LET x == CHOOSE y \in S : TRUE IN f[x] + SumOver(f, S \ {x})

ZeroAllocation(R, C) == [cell \in CellsOf(R, C) |-> Zero]

\* ------------------------------------------------------------------ nwcm
RECURSIVE nwcm_loop(_, _, _, _, _, _, _)
nwcm_loop(R, C, r, c, cur_supply, cur_demand, alloc) ==
    IF ~(r < R /\ c < C) THEN alloc
    ELSE
        LET qty == IF cur_supply[r] <= cur_demand[c]
                   THEN cur_supply[r] ELSE cur_demand[c]
            s2 == [cur_supply EXCEPT ![r] = @ - qty]
            d2 == [cur_demand EXCEPT ![c] = @ - qty]
            a2 == [alloc EXCEPT ![<<r, c>>] = Qty(qty)]
        IN  IF s2[r] = 0 THEN nwcm_loop(R, C, r + 1, c, s2, d2, a2)
            ELSE IF d2[c] = 0 THEN nwcm_loop(R, C, r, c + 1, s2, d2, a2)
            ELSE nwcm_loop(R, C, r, c, s2, d2, a2)

\* nwcm with `cur_supply[r] -= qty` written as `cur_supply[r] = qty - cur_supply[r]`
RECURSIVE nwcm_swapped_loop(_, _, _, _, _, _, _)
nwcm_swapped_loop(R, C, r, c, cur_supply, cur_demand, alloc) ==
    IF ~(r < R /\ c < C) THEN alloc
    ELSE
        LET qty == IF cur_supply[r] <= cur_demand[c]
                   THEN cur_supply[r] ELSE cur_demand[c]
            s2 == [cur_supply EXCEPT ![r] = qty - @]
            d2 == [cur_demand EXCEPT ![c] = @ - qty]
            a2 == [alloc EXCEPT ![<<r, c>>] = Qty(qty)]
        IN  IF s2[r] = 0 THEN nwcm_swapped_loop(R, C, r + 1, c, s2, d2, a2)
            ELSE IF d2[c] = 0 THEN nwcm_swapped_loop(R, C, r, c + 1, s2, d2, a2)
            ELSE nwcm_swapped_loop(R, C, r, c, s2, d2, a2)

nwcm_swapped(R, C, sup, dem, alloc) ==
    nwcm_swapped_loop(R, C, 0, 0, sup, dem, alloc)

\* nwcm with `qty = min(...)` written as `qty = cur_supply[r]`
RECURSIVE nwcm_nomin_loop(_, _, _, _, _, _, _)
nwcm_nomin_loop(R, C, r, c, cur_supply, cur_demand, alloc) ==
    IF ~(r < R /\ c < C) THEN alloc
    ELSE nwcm_nomin_loop(R, C, r + 1, c,
            [cur_supply EXCEPT ![r] = 0],
            [cur_demand EXCEPT ![c] = @ - cur_supply[r]],
            [alloc EXCEPT ![<<r, c>>] = Qty(cur_supply[r])])

nwcm_nomin(R, C, sup, dem, alloc) ==
    nwcm_nomin_loop(R, C, 0, 0, sup, dem, alloc)

nwcm(R, C, sup, dem, alloc) == nwcm_loop(R, C, 0, 0, sup, dem, alloc)

\* -------------------------------------------------- calculate_total_cost
RECURSIVE cost_sum(_, _, _)
cost_sum(alloc, cst, S) ==
    IF S = {} THEN Zero
    ELSE LET x == CHOOSE y \in S : TRUE
         IN  Plus(Times(alloc[x], cst[x]), cost_sum(alloc, cst, S \ {x}))

calculate_total_cost(alloc, cst) == cost_sum(alloc, cst, DOMAIN alloc)

\* round(x, 0) of a total  q + e * 1e-10  with |e * 1e-10| < 0.5
Round0(a) == a.q

\* --------------------------------------------------------- fix_degeneracy
BasicCount(alloc) == Cardinality({x \in DOMAIN alloc : IsBasic(alloc[x])})
PosCount(alloc) == Cardinality({x \in DOMAIN alloc : IsPos(alloc[x])})
Req(R, C) == R + C - 1

RECURSIVE fix_scan(_, _, _, _, _)
fix_scan(R, C, i, count, alloc) ==
    IF i > R * C THEN alloc
    ELSE IF IsZero(alloc[CellAt(C, i)])
         THEN LET a2 == [alloc EXCEPT ![CellAt(C, i)] = Eps]
              IN  IF count + 1 = Req(R, C) THEN a2
                  ELSE fix_scan(R, C, i + 1, count + 1, a2)
         ELSE fix_scan(R, C, i + 1, count, alloc)

\* fix_degeneracy whose count leaves out the epsilon markers already placed
fix_degeneracy_realonly(R, C, alloc) ==
    LET count == Cardinality({x \in DOMAIN alloc : alloc[x].q > 0})
    IN  IF count < Req(R, C) THEN fix_scan(R, C, 1, count, alloc) ELSE alloc

\* fix_degeneracy with `req = self.rows + self.cols - 2`
fix_degeneracy_offbyone(R, C, alloc) ==
    LET count == PosCount(alloc)
    IN  IF count < Req(R, C) - 1
        THEN fix_scan(R, C, 1, count + 1, alloc) ELSE alloc

\* fix_degeneracy without the `if count == req: return`
fix_degeneracy_noreturn(R, C, alloc) ==
    IF PosCount(alloc) < Req(R, C)
    THEN [x \in DOMAIN alloc |-> IF IsZero(alloc[x]) THEN Eps ELSE alloc[x]]
    ELSE alloc

fix_degeneracy(R, C, alloc) ==
    LET count == PosCount(alloc)
    IN  IF count < Req(R, C) THEN fix_scan(R, C, 1, count, alloc) ELSE alloc

\* ----------------------------------------------------------- calculate_uv
\* one `for r ... for c ...` pass of the while loop, from the i-th cell on
RECURSIVE uv_pass(_, _, _, _, _, _)
uv_pass(R, C, alloc, cst, i, st) ==
    IF i > R * C THEN st
    ELSE
        LET cell == CellAt(C, i)
            r == cell[1]
            c == cell[2]
        IN  IF IsBasic(alloc[cell])
            THEN IF st.u[r] # None /\ st.v[c] = None
                 THEN uv_pass(R, C, alloc, cst, i + 1,
                        [u |-> st.u,
                         v |-> [st.v EXCEPT ![c] = Some(cst[cell] - Val(st.u[r]))],
                         changed |-> TRUE])
                 ELSE IF st.u[r] = None /\ st.v[c] # None
                 THEN uv_pass(R, C, alloc, cst, i + 1,
                        [u |-> [st.u EXCEPT ![r] = Some(cst[cell] - Val(st.v[c]))],
                         v |-> st.v,
                         changed |-> TRUE])
                 ELSE uv_pass(R, C, alloc, cst, i + 1, st)
            ELSE uv_pass(R, C, alloc, cst, i + 1, st)

RECURSIVE uv_while(_, _, _, _, _)
uv_while(R, C, alloc, cst, st) ==
    LET p == uv_pass(R, C, alloc, cst, 1, [st EXCEPT !.changed = FALSE])
    IN  IF p.changed THEN uv_while(R, C, alloc, cst, p) ELSE p

uv_result(R, C, st) ==
    IF (\E r \in RowsOf(R) : st.u[r] = None)
       \/ (\E c \in ColsOf(C) : st.v[c] = None)
    THEN <<None, None>>
    ELSE <<[r \in RowsOf(R) |-> Val(st.u[r])],
           [c \in ColsOf(C) |-> Val(st.v[c])]>>

\* calculate_uv with `if changed:` in place of `while changed:` (one pass)
calculate_uv_onepass(R, C, alloc, cst) ==
    uv_result(R, C,
        uv_pass(R, C, alloc, cst, 1,
            [u |-> [r \in RowsOf(R) |-> IF r = 0 THEN Some(0) ELSE None],
             v |-> [c \in ColsOf(C) |-> None],
             changed |-> FALSE]))

\* returns <<None, None>> or <<u, v>> with u, v functions to integers
calculate_uv(R, C, alloc, cst) ==
    LET st0 == [u |-> [r \in RowsOf(R) |-> IF r = 0 THEN Some(0) ELSE None],
                v |-> [c \in ColsOf(C) |-> None],
                changed |-> TRUE]
    IN  uv_result(R, C, uv_while(R, C, alloc, cst, st0))

\* ------------------------------------------- entering-cell scan of solve
d_val(cst, uu, vv, cell) == cst[cell] - (uu[cell[1]] + vv[cell[2]])

RECURSIVE select_scan(_, _, _, _, _, _, _)
select_scan(R, C, alloc, cst, uu, vv, i) ==
    IF i = 0 THEN [min_d |-> 0, entering_cell |-> None]
    ELSE
        LET before == select_scan(R, C, alloc, cst, uu, vv, i - 1)
            cell == CellAt(C, i)
        IN  IF IsZero(alloc[cell]) /\ d_val(cst, uu, vv, cell) < before.min_d
            THEN [min_d |-> d_val(cst, uu, vv, cell), entering_cell |-> cell]
            ELSE before

select_entering(R, C, alloc, cst, uu, vv) ==
    select_scan(R, C, alloc, cst, uu, vv, R * C)

\* the tolerance written 1e9 instead of 1e-9
IsOptimalMinD_loose(m) == m >= -1000000000

\* `min_d >= -1e-9` for the integer min_d of integer costs
IsOptimalMinD(m) == m >= 0

\* -------------------------------------------------------- get_closed_loop
RangeSeq(n) == [i \in 1 .. n |-> i - 1]

\* get_neighbors whose column branch also admits start_node (as its row
\* branch does)
get_neighbors_closing(R, C, alloc, start_node, curr, prev_dir) ==
    IF prev_dir = "H"
    THEN LET c == curr[2]
             Keep(r) == r # curr[1]
                        /\ (<<r, c>> = start_node \/ IsBasic(alloc[<<r, c>>]))
             rs == SelectSeq(RangeSeq(R), Keep)
         IN  [k \in 1 .. Len(rs) |-> [node |-> <<rs[k], c>>, dir |-> "V"]]
    ELSE LET r == curr[1]
             Keep(c) == c # curr[2]
                        /\ (<<r, c>> = start_node \/ IsBasic(alloc[<<r, c>>]))
             cs == SelectSeq(RangeSeq(C), Keep)
         IN  [k \in 1 .. Len(cs) |-> [node |-> <<r, cs[k]>>, dir |-> "H"]]

get_neighbors(R, C, alloc, start_node, curr, prev_dir) ==
    IF prev_dir = "H"
    THEN LET c == curr[2]
             Keep(r) == r # curr[1] /\ IsBasic(alloc[<<r, c>>])
             rs == SelectSeq(RangeSeq(R), Keep)
         IN  [k \in 1 .. Len(rs) |-> [node |-> <<rs[k], c>>, dir |-> "V"]]
    ELSE LET r == curr[1]
             Keep(c) == c # curr[2]
                        /\ (<<r, c>> = start_node \/ IsBasic(alloc[<<r, c>>]))
             cs == SelectSeq(RangeSeq(C), Keep)
         IN  [k \in 1 .. Len(cs) |-> [node |-> <<r, cs[k]>>, dir |-> "H"]]

InPath(node, path) == \E k \in 1 .. Len(path) : path[k] = node

\* the `for n_node, n_dir in get_neighbors(...)` loop from the i-th neighbour
RECURSIVE loop_visit(_, _, _, _, _)
loop_visit(start_node, nbrs, i, path, stack) ==
    IF i > Len(nbrs) THEN [found |-> FALSE, path |-> None, stack |-> stack]
    ELSE IF nbrs[i].node = start_node /\ Len(path) >= 3
         THEN [found |-> TRUE, path |-> path, stack |-> stack]
         ELSE IF ~InPath(nbrs[i].node, path)
              THEN loop_visit(start_node, nbrs, i + 1, path,
                     Append(stack, [curr |-> nbrs[i].node,
                                    path |-> Append(path, nbrs[i].node),
                                    dir |-> nbrs[i].dir]))
              ELSE loop_visit(start_node, nbrs, i + 1, path, stack)

\* the `while stack:` loop
RECURSIVE loop_search(_, _, _, _, _)
loop_search(R, C, alloc, start_node, stack) ==
    IF stack = <<>> THEN None
    ELSE
        LET top == stack[Len(stack)]
            rest == SubSeq(stack, 1, Len(stack) - 1)
            res == loop_visit(start_node,
                     get_neighbors(R, C, alloc, start_node, top.curr, top.dir),
                     1, top.path, rest)
        IN  IF res.found THEN res.path
            ELSE loop_search(R, C, alloc, start_node, res.stack)

get_closed_loop(R, C, alloc, start_node) ==
    loop_search(R, C, alloc, start_node,
        <<[curr |-> start_node, path |-> <<start_node>>, dir |-> "V"]>>)

\* ------------------------------------------------- reallocation of solve
\* min(minus_cells_values): the values at path[1], path[3], ... (0-based)
RECURSIVE min_minus(_, _, _)
min_minus(alloc, path, k) ==
    IF k + 2 > Len(path) THEN alloc[path[k]]
    ELSE LET m == min_minus(alloc, path, k + 2)
         IN  IF Less(m, alloc[path[k]]) THEN m ELSE alloc[path[k]]

theta_of(alloc, path) == min_minus(alloc, path, 2)

RECURSIVE shift_from(_, _, _, _)
shift_from(alloc, path, theta, k) ==
    IF k > Len(path) THEN alloc
    ELSE shift_from(
            [alloc EXCEPT ![path[k]] =
                IF (k - 1) % 2 = 0 THEN Plus(@, theta) ELSE Minus(@, theta)],
            path, theta, k + 1)

reallocate(alloc, path) == shift_from(alloc, path, theta_of(alloc, path), 1)

\* ------------------------------------------------------------- instances
Dims == {d \in (MinDim .. MaxDim) \X (MinDim .. MaxDim) :
            d[1] + d[2] <= MaxDim}

\* the sequences of n naturals whose sum is at most k
RECURSIVE BoundedSeqs(_, _)
BoundedSeqs(n, k) ==
    IF n = 0 THEN {<<>>}
    ELSE UNION {{Append(s, x) : s \in BoundedSeqs(n - 1, k - x)} : x \in 0 .. k}

RECURSIVE SeqSum(_)
SeqSum(s) == IF s = <<>> THEN 0 ELSE Head(s) + SeqSum(Tail(s))

\* a list of n numbers as the source indexes it, from 0
Vector(s) == [i \in 0 .. (Len(s) - 1) |-> s[i + 1]]
\* a list of R lists of C numbers, from its row-major sequence
Matrix(R, C, s) == [cell \in CellsOf(R, C) |-> s[cell[1] * C + cell[2] + 1]]

\* TransportationSolver.__init__ on a balanced instance of non-negative
\* integers (run_solver refuses an unbalanced one)
Init ==
    /\ \E d \in Dims : rows = d[1] /\ cols = d[2]
    /\ \E s \in BoundedSeqs(rows, MaxWeight) : supply = Vector(s)
    /\ \E s \in BoundedSeqs(cols, SumOver(supply, RowsOf(rows))) :
            /\ SeqSum(s) = SumOver(supply, RowsOf(rows))
            /\ demand = Vector(s)
    /\ \E s \in BoundedSeqs(rows * cols,
                            MaxWeight - SumOver(supply, RowsOf(rows))) :
            costs = Matrix(rows, cols, s)
    /\ allocation = ZeroAllocation(rows, cols)
    /\ pc = "start"
    /\ iteration = 0
    /\ initial_cost = None
    /\ u = None
    /\ v = None
    /\ min_d = 0
    /\ entering_cell = None
    /\ outcome = "running"
    /\ prev = None

\* ------------------------------------------------------------------ solve
\* solve, lines 27-32: nwcm, initial cost, iteration = 1
SolveStart ==
    /\ pc = "start"
    /\ allocation' = nwcm(rows, cols, supply, demand, allocation)
    /\ initial_cost' = calculate_total_cost(allocation', costs)
    /\ iteration' = 1
    /\ pc' = "fix"
    /\ UNCHANGED <<rows, cols, costs, supply, demand, u, v, min_d,
                   entering_cell, outcome, prev>>

\* solve, lines 34-35: top of the while loop, fix_degeneracy
SolveFixDegeneracy ==
    /\ pc = "fix"
    /\ iteration <= MaxIter
    /\ allocation' = fix_degeneracy(rows, cols, allocation)
    /\ pc' = "uv"
    /\ UNCHANGED <<rows, cols, costs, supply, demand, iteration, initial_cost,
                   u, v, min_d, entering_cell, outcome, prev>>

\* solve, lines 36-40: calculate_uv, "Graph disconnected" on the sentinel
SolveCalculateUV ==
    /\ pc = "uv"
    /\ LET uv == calculate_uv(rows, cols, allocation, costs)
       IN  /\ u' = uv[1]
           /\ v' = uv[2]
           /\ IF uv[1] = None
              THEN outcome' = "disconnected" /\ pc' = "done"
              ELSE outcome' = outcome /\ pc' = "select"
    /\ UNCHANGED <<rows, cols, costs, supply, demand, allocation, iteration,
                   initial_cost, min_d, entering_cell, prev>>

\* solve, lines 42-57: entering cell, "Solution is Optimal!" when none
SolveSelect ==
    /\ pc = "select"
    /\ LET sel == select_entering(rows, cols, allocation, costs, u, v)
       IN  /\ min_d' = sel.min_d
           /\ entering_cell' = sel.entering_cell
           /\ IF IsOptimalMinD(sel.min_d)
              THEN outcome' = "optimal" /\ pc' = "done"
              ELSE outcome' = outcome /\ pc' = "loop"
    /\ UNCHANGED <<rows, cols, costs, supply, demand, allocation, iteration,
                   initial_cost, u, v, prev>>

\* solve, lines 59-76: get_closed_loop, "Closed loop not found" or the shift
SolveReallocate ==
    /\ pc = "loop"
    /\ LET path == get_closed_loop(rows, cols, allocation, entering_cell)
       IN  IF path = None
           THEN /\ outcome' = "no_loop"
                /\ pc' = "done"
                /\ UNCHANGED <<allocation, iteration>>
           ELSE /\ allocation' = reallocate(allocation, path)
                /\ iteration' = iteration + 1
                /\ pc' = "fix"
                /\ outcome' = outcome
    /\ UNCHANGED <<rows, cols, costs, supply, demand, initial_cost, u, v,
                   min_d, entering_cell, prev>>

\* solve, line 78: the returned allocation and total cost
ret_allocation == allocation
ret_cost == Round0(calculate_total_cost(allocation, costs))

Next ==
    \/ SolveStart
    \/ SolveFixDegeneracy
    \/ SolveCalculateUV
    \/ SolveSelect
    \/ SolveReallocate

Spec == Init /\ [][Next]_vars

\* the real quantity shipped from row r, and into column c
RowSum(alloc, r) == SumOver([c \in ColsOf(cols) |-> alloc[<<r, c>>].q], ColsOf(cols))
ColSum(alloc, c) == SumOver([r \in RowsOf(rows) |-> alloc[<<r, c>>].q], RowsOf(rows))

\* ------------------------------------------- fix_degeneracy called twice
\* a solver whose allocation holds any mix of empty cells, epsilon markers
\* and unit flows; prev lists the allocation before each call
InitFix ==
    /\ \E d \in Dims : rows = d[1] /\ cols = d[2]
    /\ allocation \in [CellsOf(rows, cols) -> {Zero, Eps, Qty(1)}]
    /\ costs = [x \in CellsOf(rows, cols) |-> 0]
    /\ supply = [r \in RowsOf(rows) |-> RowSum(allocation, r)]
    /\ demand = [c \in ColsOf(cols) |-> ColSum(allocation, c)]
    /\ pc = "call"
    /\ iteration = 0
    /\ initial_cost = None
    /\ u = None
    /\ v = None
    /\ min_d = 0
    /\ entering_cell = None
    /\ outcome = "running"
    /\ prev = <<>>

CallFixDegeneracy ==
    /\ pc = "call"
    /\ Len(prev) < 2
    /\ prev' = Append(prev, allocation)
    /\ allocation' = fix_degeneracy(rows, cols, allocation)
    /\ UNCHANGED <<rows, cols, costs, supply, demand, pc, iteration,
                   initial_cost, u, v, min_d, entering_cell, outcome>>

NextFix == CallFixDegeneracy

SpecFix == InitFix /\ [][NextFix]_vars

\* ----------------------------------------------- calculate_uv called once
\* the k-th basic cell of alloc in row-major order is cell x
BasicRank(C, alloc, x) ==
    Cardinality({y \in DOMAIN alloc :
        IsBasic(alloc[y]) /\ y[1] * C + y[2] <= x[1] * C + x[2]})

\* a solver whose allocation has exactly rows + cols - 1 basic cells, all
\* epsilon markers or all unit flows, with any costs on the basic cells
InitUV ==
    /\ \E d \in Dims : rows = d[1] /\ cols = d[2]
    /\ \E B \in SUBSET CellsOf(rows, cols) : \E mark \in {Eps, Qty(1)} :
            /\ Cardinality(B) = Req(rows, cols)
            /\ allocation = [x \in CellsOf(rows, cols) |->
                                IF x \in B THEN mark ELSE Zero]
    /\ \E s \in BoundedSeqs(Req(rows, cols), MaxWeight) :
            costs = [x \in CellsOf(rows, cols) |->
                        IF IsBasic(allocation[x])
                        THEN s[BasicRank(cols, allocation, x)] ELSE 0]
    /\ supply = [r \in RowsOf(rows) |-> RowSum(allocation, r)]
    /\ demand = [c \in ColsOf(cols) |-> ColSum(allocation, c)]
    /\ pc = "call"
    /\ iteration = 0
    /\ initial_cost = None
    /\ u = None
    /\ v = None
    /\ min_d = 0
    /\ entering_cell = None
    /\ outcome = "running"
    /\ prev = <<>>

CallCalculateUV ==
    /\ pc = "call"
    /\ LET uv == calculate_uv(rows, cols, allocation, costs)
       IN  u' = uv[1] /\ v' = uv[2]
    /\ pc' = "called"
    /\ UNCHANGED <<rows, cols, costs, supply, demand, allocation, iteration,
                   initial_cost, min_d, entering_cell, outcome, prev>>

NextUV == CallCalculateUV

SpecUV == InitUV /\ [][NextUV]_vars

\* ================================================================ claims
NoEpsPart(alloc) == \A x \in DOMAIN alloc : alloc[x].e = 0
AfterNwcm == pc = "fix" /\ iteration = 1

\* the least cost of a non-negative integer plan with the given row and
\* column sums, by enumeration of the plans cell by cell in row-major order
Unreachable == MaxWeight * MaxWeight + 1
MinOf(S) == CHOOSE m \in S : \A y \in S : m <= y

RECURSIVE plan_min(_, _, _, _, _, _)
plan_min(R, C, cst, i, sup, dem) ==
    IF i > R * C
    THEN IF (\A r \in RowsOf(R) : sup[r] = 0) /\ (\A c \in ColsOf(C) : dem[c] = 0)
         THEN 0 ELSE Unreachable
    ELSE
        LET cell == CellAt(C, i)
            r == cell[1]
            c == cell[2]
            hi == IF sup[r] <= dem[c] THEN sup[r] ELSE dem[c]
            xs == {x \in 0 .. hi : c = C - 1 => x = sup[r]}
        IN  MinOf({Unreachable} \cup
                  {x * cst[cell]
                     + plan_min(R, C, cst, i + 1,
                                [sup EXCEPT ![r] = @ - x],
                                [dem EXCEPT ![c] = @ - x]) : x \in xs})

MinCost == plan_min(rows, cols, costs, 1, supply, demand)

\* C1: whenever solve returns without the disconnected-graph failure, the
\* returned total cost is the minimum cost over all feasible plans.
C1_ReturnsMinimum ==
    (pc = "done" /\ outcome # "disconnected") => ret_cost = MinCost

\* C2: right after nwcm, every row of the allocation sums to its supply and
\* every column to its demand.
C2_NwcmFeasible ==
    AfterNwcm =>
        /\ NoEpsPart(allocation)
        /\ \A r \in RowsOf(rows) : RowSum(allocation, r) = supply[r]
        /\ \A c \in ColsOf(cols) : ColSum(allocation, c) = demand[c]

\* nwcm has run on an instance with a zero demand entry and a simultaneous
\* exhaustion of a row and a column (fewer than rows + cols - 1 positive cells)
C2_Witness ==
    /\ AfterNwcm
    /\ \E c \in ColsOf(cols) : demand[c] = 0
    /\ \E r \in RowsOf(rows) : supply[r] = 0
    /\ PosCount(allocation) >= 2
    /\ PosCount(allocation) < Req(rows, cols)

\* C3: when solve ends with "Solution is Optimal!", every non-basic cell
\* (allocation exactly 0) has opportunity cost costs - (u + v) >= -1e-9,
\* which for the integer costs and potentials is >= 0.
C3_OptimalCertificate ==
    outcome = "optimal" =>
        \A x \in CellsOf(rows, cols) :
            IsZero(allocation[x]) => d_val(costs, u, v, x) >= 0

\* solve ended optimal with a non-basic cell of positive opportunity cost and
\* a basic cell of non-zero potential sum
C3_Witness ==
    /\ outcome = "optimal"
    /\ \E x \in CellsOf(rows, cols) :
            IsZero(allocation[x]) /\ d_val(costs, u, v, x) > 0
    /\ \E r \in RowsOf(rows) : u[r] # 0

\* C4: when calculate_uv is called (right after fix_degeneracy), the number
\* of basic cells is exactly rows + cols - 1.
C4_BasisSize == pc = "uv" => BasicCount(allocation) = Req(rows, cols)

\* calculate_uv is about to be called on a basis that fix_degeneracy completed
\* with epsilon markers next to real flows
C4_Witness ==
    /\ pc = "uv"
    /\ \E x \in CellsOf(rows, cols) : IsEps(allocation[x])
    /\ \E x \in CellsOf(rows, cols) : allocation[x].q > 0

\* C5: in every state of solve every allocation cell is >= 0.
C5_NonNegative == \A x \in CellsOf(rows, cols) : NonNeg(allocation[x])

\* fix_degeneracy has run in solve and left real flows and epsilon markers
C5_Witness ==
    /\ pc = "select"
    /\ \E x \in CellsOf(rows, cols) : IsEps(allocation[x])
    /\ \E x \in CellsOf(rows, cols) : allocation[x].q > 1

\* a closed loop from start_node: column move first, then alternating
SameCol(a, b) == a[2] = b[2] /\ a[1] # b[1]
SameRow(a, b) == a[1] = b[1] /\ a[2] # b[2]
IsAlternatingLoop(path, start_node) ==
    /\ path # None
    /\ Len(path) >= 4
    /\ Len(path) % 2 = 0
    /\ path[1] = start_node
    /\ \A k \in 2 .. Len(path) : IsBasic(allocation[path[k]])
    /\ \A k \in 1 .. (Len(path) - 1) :
            IF k % 2 = 1 THEN SameCol(path[k], path[k + 1])
                         ELSE SameRow(path[k], path[k + 1])
    /\ SameRow(path[Len(path)], start_node)

\* C7: whenever solve has selected an entering cell on a basis of
\* rows + cols - 1 cells, get_closed_loop returns a path that starts at the
\* entering cell, first moves within its column, alternates column and row
\* moves through basic cells and closes on the entering cell; solve never
\* ends with "Closed loop not found".
C7_LoopAlwaysFound ==
    /\ outcome # "no_loop"
    /\ (pc = "loop" /\ BasicCount(allocation) = Req(rows, cols)) =>
            IsAlternatingLoop(
                get_closed_loop(rows, cols, allocation, entering_cell),
                entering_cell)

\* C8: in the allocation solve returns, no cell holds the epsilon
\* placeholder: every cell is exactly 0 or a real shipped quantity.
C8_NoEpsilonReturned ==
    pc = "done" => \A x \in CellsOf(rows, cols) : ret_allocation[x].e = 0

\* the allocation as the k-th call of fix_degeneracy left it
AfterCall(k) == IF k < Len(prev) THEN prev[k + 1] ELSE allocation
\* C9: a second fix_degeneracy right after a first changes no cell, and a
\* call on an allocation that already has rows + cols - 1 basic cells
\* changes no cell.
C9_FixIdempotent ==
    /\ Len(prev) = 2 => allocation = prev[2]
    /\ \A k \in 1 .. Len(prev) :
            BasicCount(prev[k]) >= Req(rows, cols) => AfterCall(k) = prev[k]

\* fix_degeneracy ran twice; the first call placed epsilon markers
C9_Witness ==
    /\ Len(prev) = 2
    /\ prev[1] # prev[2]
    /\ \E x \in CellsOf(rows, cols) : IsZero(prev[1][x]) /\ IsEps(allocation[x])
    /\ \E x \in CellsOf(rows, cols) : IsZero(allocation[x])

\* the rows and columns joined to row 0 by a chain of basic cells
RowNode(r) == <<"row", r>>
ColNode(c) == <<"col", c>>
Adjacent(n, m) ==
    /\ n[1] = "row"
    /\ m[1] = "col"
    /\ IsBasic(allocation[<<n[2], m[2]>>])
AllNodes == {RowNode(r) : r \in RowsOf(rows)} \cup {ColNode(c) : c \in ColsOf(cols)}
RECURSIVE Reach(_)
Reach(S) ==
    LET T == S \cup {m \in AllNodes :
                        \E n \in S : Adjacent(n, m) \/ Adjacent(m, n)}
    IN  IF T = S THEN S ELSE Reach(T)
AllConnected == Reach({RowNode(0)}) = AllNodes


\* C10: on rows + cols - 1 basic cells calculate_uv returns (None, None)
\* exactly when some row or column is not connected to row 0 through basic
\* cells; otherwise u[0] = 0 and costs = u + v on every basic cell.
C10_UVContract ==
    (pc = "called" /\ BasicCount(allocation) = Req(rows, cols)) =>
        /\ (u = None) <=> ~AllConnected
        /\ (v = None) <=> ~AllConnected
        /\ u # None =>
            /\ u[0] = 0
            /\ \A x \in CellsOf(rows, cols) :
                    IsBasic(allocation[x]) => costs[x] = u[x[1]] + v[x[2]]

\* calculate_uv succeeded on a basis with a row below row 0 whose potential
\* is not zero
C10_Witness ==
    /\ pc = "called"
    /\ BasicCount(allocation) = Req(rows, cols)
    /\ u # None
    /\ \E r \in RowsOf(rows) : r > 0 /\ u[r] # 0
    /\ \E c \in ColsOf(cols) : v[c] # 0

\* the rows and columns joined to the nodes of S by chains of cells of B
RECURSIVE ReachIn(_, _)
ReachIn(B, S) ==
    LET T == S \cup {RowNode(x[1]) : x \in {y \in B : ColNode(y[2]) \in S}}
               \cup {ColNode(x[2]) : x \in {y \in B : RowNode(y[1]) \in S}}
    IN  IF T = S THEN S ELSE ReachIn(B, T)
BasicCells == {x \in CellsOf(rows, cols) : IsBasic(allocation[x])}
\* cell x lies on a cycle of basic cells
ClosesCycle(x) == ColNode(x[2]) \in ReachIn(BasicCells \ {x}, {RowNode(x[1])})
NwcmPlan == nwcm(rows, cols, supply, demand, ZeroAllocation(rows, cols))

\* C11: the "Graph disconnected" halt is reachable on a balanced,
\* non-negative instance, and whenever solve halts with it the instance is
\* degenerate (nwcm left fewer than rows + cols - 1 positive cells), an
\* epsilon marker of fix_degeneracy lies on a cycle of basic cells, some row
\* or column is cut off from row 0, calculate_uv returned the sentinel, and
\* solve stopped in iteration 1 with no optimality test made.
C11_DisconnectedByEpsilonCycle ==
    outcome = "disconnected" =>
        /\ pc = "done"
        /\ iteration = 1
        /\ u = None /\ v = None
        /\ entering_cell = None /\ min_d = 0
        /\ PosCount(NwcmPlan) < Req(rows, cols)
        /\ allocation = fix_degeneracy(rows, cols, NwcmPlan)
        /\ BasicCount(allocation) = Req(rows, cols)
        /\ ~AllConnected
        /\ \E x \in BasicCells : IsEps(allocation[x]) /\ ClosesCycle(x)

\* solve halted with "Graph disconnected" on an instance with three real
\* shipments whose NWCM plan, returned unimproved, is not a cheapest plan
C11_Witness ==
    /\ outcome = "disconnected"
    /\ pc = "done"
    /\ Cardinality({x \in CellsOf(rows, cols) : allocation[x].q > 0}) >= 3
    /\ \E x \in BasicCells : IsEps(allocation[x]) /\ ClosesCycle(x)
    /\ ret_cost > MinCost

\* what holds in every state of a run that never leaves iteration 1
StaysInIterationOne ==
    /\ iteration <= 1
    /\ pc = "loop" =>
            get_closed_loop(rows, cols, allocation, entering_cell) = None
    /\ pc \in {"uv", "select", "loop", "done"} =>
            allocation = fix_degeneracy(rows, cols, NwcmPlan)
    /\ pc = "done" =>
            /\ outcome \in {"disconnected", "optimal", "no_loop"}
            /\ ret_allocation = fix_degeneracy(rows, cols, NwcmPlan)

\* solve's position, in the order one pass of its loop visits them
Rank(p) ==
    CASE p = "start" -> 0
      [] p = "fix" -> 1
      [] p = "uv" -> 2
      [] p = "select" -> 3
      [] p = "loop" -> 4
      [] p = "done" -> 5

\* solve has a next step: the guard of one of its steps holds
CanStep ==
    \/ pc \in {"start", "uv", "select", "loop"}
    \/ pc = "fix" /\ iteration <= MaxIter

\* C12: on every balanced instance of non-negative integers solve
\* terminates, and does so during iteration 1: solve can always step until
\* it returns and every step moves it forward, the iteration counter never
\* exceeds 1, get_closed_loop returns no path for the entering cell, no
\* reallocation is made, and the returned allocation is the NWCM plan plus
\* the epsilon markers of the first fix_degeneracy.
C12_TerminatesInIterationOne ==
    /\ [](StaysInIterationOne /\ (pc = "done" \/ CanStep))
    /\ [][/\ Rank(pc') > Rank(pc)
          /\ pc = "loop" => (pc' = "done" /\ allocation' = allocation)]_vars

\* solve returned after calculate_uv succeeded and an entering cell with a
\* negative opportunity cost was selected, for which no loop was returned
C12_Witness ==
    /\ pc = "done"
    /\ outcome = "no_loop"
    /\ iteration = 1
    /\ u # None
    /\ min_d < 0
    /\ IsZero(allocation[entering_cell])
    /\ \E x \in CellsOf(rows, cols) : IsEps(allocation[x])
    /\ ret_allocation = fix_degeneracy(rows, cols, NwcmPlan)

====
